---- MODULE Spec2Model ----
(***************************************************************************)
(* Reconciliation of the registry "Reestr AHCh" against the 1C bank        *)
(* statement, the Bitrix task-tracker export and PDF invoices, and the     *)
(* Telegram bot that drives the three pipelines.                           *)
(*                                                                         *)
(* The module is plain ASCII, so the Cyrillic literals of the source are   *)
(* transliterated:                                                         *)
(*   "Oplacheno"      status 'Oplacheno' (Paid),  import_1C.py:146         *)
(*   "Podgotovleno"   status 'Podgotovleno' (Prepared)                     *)
(*   "Oplachen", "Peredan v oplatu", "Otpravlen v 1C", "Utverzhdena"       *)
(*                    the Bitrix status labels of import_Bitrix.py:77-80   *)
(*   "Chernovik"      some other, non-terminal status (Draft)              *)
(*   "U", "B"         upper-case Cyrillic ledger prefixes (U is 'Yu')      *)
(* Row fields and the columns they stand for:                              *)
(*   inv 'N scheta'            amt 'Summa'         status 'Status oplaty'  *)
(*   obj 'Ob"ekt'              tmc 'TMC'           fid 'ID_Schet_Bitrix'   *)
(*   task 'N zadachi Bitriks'  date 'Data scheta'  supplier 'Postavshchik' *)
(*   ctrl 'Kontrol oplaty'     ledger 'N sinei nakladnoi'                  *)
(*                                                                         *)
(* Cells.  NULL (<<>>) is an empty cell / NaN / None.  A text cell is      *)
(* <<"text">>, an amount <<kopecks>>, a date text 'dd.mm.2024' is <<d, m>>,*)
(* a ledger number 'P-n' is <<"P", n>>.  An invoice number is the sequence *)
(* of its characters, <<"0","0","7">>, the empty string is <<>>, and a     *)
(* missing invoice number of an external source is NA.                     *)
(***************************************************************************)
EXTENDS Integers, Sequences, FiniteSets, TLC

VARIABLES
    registry,   \* rows of the registry file in the working directory
    schema,     \* which registry column, if any, the file lacks
    op,         \* the entry point that ran last ("none" before any run)
    pre,        \* the registry rows before the last run
    src,        \* the external source the last run consumed
    result,     \* kind of status string the last run returned
    wrote,      \* whether the last run rewrote the registry file
    raised,     \* whether some step of the last run failed
    again,      \* the last run repeated the successful run before it
    conv,       \* bot: the state of every user's conversation
    user_data,  \* bot: the user_data dictionary
    fs,         \* bot: the temporary directories and their files
    upload,     \* bot: the file that the last run-triggering upload stored
    reply,      \* bot: the last message of the last handler
    actor,      \* bot: the user whose update the last handler handled
    log         \* bot: the users that bot_logs.log has lines about

coreVars == <<registry, schema, op, pre, src, result, wrote, raised, again>>
botVars == <<conv, user_data, fs, upload, reply, actor, log>>
vars == <<registry, schema, op, pre, src, result, wrote, raised, again,
          conv, user_data, fs, upload, reply, actor, log>>

----------------------------------------------------------------------------
(* Bounds *)

MaxRows == 3      \* registry rows (the PDF path appends up to this length)
MaxSrc == 2       \* records of one external source
MaxFiles == 2     \* uploaded files that the working directories hold
MaxDirs == 2      \* temporary directories that exist at one time

----------------------------------------------------------------------------
(* Cells *)

NULL == <<>>
NA == <<"NA">>

Terminal == {<<"Oplacheno">>, <<"Podgotovleno">>}

\* pandas.to_numeric(errors='coerce') on an identifier cell: digits stay,
\* anything else becomes NaN
NumericIds == {"101", "102", "5", "6"}

to_numeric(c) == IF c # NULL /\ c[1] \in NumericIds THEN c ELSE NULL

\* str.isdigit and str(int(x)) of import_1C.py:117-119, on character sequences
Digits == {"0", "1", "2", "3", "4", "5", "6", "7", "8", "9"}

isdigit(s) == s # <<>> /\ \A i \in 1..Len(s) : s[i] \in Digits

RECURSIVE lstrip0(_)
lstrip0(s) == IF s # <<>> /\ s[1] = "0" THEN lstrip0(Tail(s)) ELSE s

str_int(s) == IF lstrip0(s) = <<>> THEN <<"0">> ELSE lstrip0(s)

----------------------------------------------------------------------------
(* Dates of 2024 as <<day, month>> *)

MonthDays == <<31, 29, 31, 30, 31, 30, 31, 31, 30, 31, 30, 31>>

RECURSIVE DaysBefore(_)
DaysBefore(m) == IF m = 1 THEN 0 ELSE MonthDays[m - 1] + DaysBefore(m - 1)

Ordinal(dt) == DaysBefore(dt[2]) + dt[1]

RECURSIVE FromOrdinal(_, _)
FromOrdinal(n, m) ==
    IF m = 12 \/ n <= MonthDays[m] THEN <<n, m>> ELSE FromOrdinal(n - MonthDays[m], m + 1)

\* Timestamp + pd.Timedelta(days=k)
AddDays(dt, k) == FromOrdinal(Ordinal(dt) + k, 1)

ValidDate(dt) == /\ Len(dt) = 2
                 /\ dt[2] \in 1..12
                 /\ dt[1] \in 1..MonthDays[dt[2]]

\* pd.to_datetime(text, format='%d.%m.%Y', errors='coerce'): day first.  A
\* cell <<d, m>> is the text 'dd.mm.2024' or an Excel date; a cell
\* <<d, m, "iso">> is the text '2024-mm-dd', which does not match the format.
parse_dayfirst(c) == IF ValidDate(c) THEN c ELSE NULL

\* pd.to_datetime(text, errors='coerce') with no format and no dayfirst: the
\* text 'a.b.2024' is read month first when a can be a month, and day first
\* when it cannot
parse_default(c) ==
    IF c = NULL THEN NULL
    ELSE IF Len(c) = 3 THEN <<c[1], c[2]>>
    ELSE IF c[1] \in 1..12 /\ ValidDate(<<c[2], c[1]>>) THEN <<c[2], c[1]>>
    ELSE parse_dayfirst(c)

----------------------------------------------------------------------------
(* DataFrame operations *)

inv_amt(r) == <<r.inv, r.amt>>
task_amt(r) == <<r.task, r.amt>>

\* The key columns of a row: ['N scheta', 'Summa'] or ['N zadachi Bitriks', 'Summa']
key(r, on) == IF on = "inv_amt" THEN inv_amt(r) ELSE task_amt(r)

\* DataFrame.drop_duplicates(subset=on): keeps the first row of every key
\* (NaN keys are equal to each other)
drop_duplicates(s, on) ==
    LET keep == {i \in 1..Len(s) : \A j \in 1..(i - 1) : key(s[j], on) # key(s[i], on)}
        RECURSIVE take(_)
        take(i) == IF i > Len(s) THEN <<>>
                   ELSE IF i \in keep THEN <<s[i]>> \o take(i + 1)
                   ELSE take(i + 1)
    IN  take(1)

\* left.merge(right, on=on, how='left') for a right side that is unique on
\* the key: for every left row the matching right row, or NULL.  pandas
\* matches a NaN key with a NaN key.
merge_left(left, right, on) ==
    [i \in 1..Len(left) |->
        IF \E j \in 1..Len(right) : key(right[j], on) = key(left[i], on)
        THEN <<right[CHOOSE j \in 1..Len(right) : key(right[j], on) = key(left[i], on)]>>
        ELSE NULL]

----------------------------------------------------------------------------
(* import_1C.py *)

\* A frame that a step returns, or the exception it raised
Raise == [ok |-> FALSE, rows |-> <<>>, swallowed |-> FALSE]
Frame(rows) == [ok |-> TRUE, rows |-> rows, swallowed |-> FALSE]
Swallowed(rows) == [ok |-> TRUE, rows |-> rows, swallowed |-> TRUE]

\* load_ahx_data returns None when the file cannot be found or read; the
\* caller's tuple unpacking then raises
load_ahx_data(disk, io) == IF io = "reg_load_fail" THEN Raise ELSE Frame(disk)

\* load_payment_data / load_bitrix: None, or FileNotFoundError
load_source(file, io) == IF io = "src_load_fail" THEN Raise ELSE Frame(file.recs)

prepare_register(rows, sch) ==
    IF sch = "no_task" THEN Raise
    ELSE Frame([i \in 1..Len(rows) |->
            [rows[i] EXCEPT !.task = to_numeric(rows[i].task),
                            !.fid = to_numeric(rows[i].fid)]])

\* 'Nomer scheta' is the token extract_invoice_number found in the memo
\* ('None' when it found nothing), with str(int(x)) applied to all-digit tokens
prepare_export_1C(recs) ==
    [i \in 1..Len(recs) |->
        LET x == IF recs[i].num = NA THEN <<"N", "o", "n", "e">> ELSE recs[i].num
        IN  [inv |-> IF isdigit(x) THEN str_int(x) ELSE x,
             amt |-> recs[i].amt,
             status |-> recs[i].state]]

\* The rule without its test of the prior status
status_mask_unguarded(new, old) == new # NULL

\* The rule of import_1C.py:145-148 and import_Bitrix.py:174-175 for one row
status_mask(new, old) == new # NULL /\ ~(old \in Terminal)

update_payment_status(df_export, cols, df_register, sch) ==
    IF cols = "no_status" \/ sch = "no_status" THEN Swallowed(df_register)
    ELSE LET df_export_unique == drop_duplicates(df_export, "inv_amt")
             df_merged == merge_left(df_register, df_export_unique, "inv_amt")
             new(i) == IF df_merged[i] = NULL THEN NULL ELSE df_merged[i][1].status
         IN  Frame([i \in 1..Len(df_register) |->
                 IF status_mask(new(i), df_register[i].status)
                 THEN [df_register[i] EXCEPT !.status = new(i)]
                 ELSE df_register[i]])

\* str(row['Postavshchik']).lower().strip()
lower_strip(c) ==
    IF c = NULL THEN "nan"
    ELSE CASE c[1] = "IP Shaidulin" -> "ip shaidulin"
           [] c[1] = " ip shaidulin " -> "ip shaidulin"
           [] c[1] = "Koreksmarket" -> "koreksmarket"
           [] c[1] = "Kuryshev" -> "kuryshev"
           [] OTHER -> c[1]

days_dict(supplier) ==
    CASE supplier = "ip shaidulin" -> 30
      [] supplier = "tehnologiya 21vek" -> 0
      [] supplier = "koreksmarket" -> 28
      [] supplier = "region-snabzhenie" -> 28
      [] supplier = "kuryshev" -> 25
      [] supplier = "upakovochnye materialy" -> 30
      [] supplier = "ip pavlov e.v." -> 0
      [] OTHER -> 0

\* Rows with an invoice date get date + days as a Timestamp; line 212 then
\* re-parses the whole column with no format, which reads the text of every
\* other row month first.  Both columns leave as 'dd.mm.yyyy' text.
update_date_payment(df_register, sch) ==
    IF sch = "no_date" THEN Swallowed(df_register)
    ELSE Frame([i \in 1..Len(df_register) |->
            LET row == df_register[i]
                dt == parse_dayfirst(row.date)
            IN  IF dt # NULL
                THEN [row EXCEPT !.date = dt,
                                 !.ctrl = AddDays(dt, days_dict(lower_strip(row.supplier)))]
                ELSE [row EXCEPT !.date = dt, !.ctrl = parse_default(row.ctrl)]])

\* update_excel_file: True when the workbook was saved; a frame that is not a
\* DataFrame (a step's error string) makes df.copy() raise, which is caught
update_excel_file(df, io) == df.ok /\ io # "write_fail"

Outcome(rows, res, wr, ra) == [rows |-> rows, result |-> res, wrote |-> wr, raised |-> ra]

run_1c_pipeline(disk, sch, file, io) ==
    LET loaded == load_ahx_data(disk, io)
        export == load_source(file, io)
    IN  IF ~loaded.ok \/ ~export.ok THEN Outcome(disk, "fail", FALSE, TRUE)
        ELSE LET df_export_clean == prepare_export_1C(export.rows)
                 df_register_clean == prepare_register(loaded.rows, sch)
             IN  IF ~df_register_clean.ok THEN Outcome(disk, "fail", FALSE, TRUE)
                 ELSE LET st == update_payment_status(df_export_clean, file.cols,
                                                      df_register_clean.rows, sch)
                          dp == update_date_payment(st.rows, sch)
                      IN  IF update_excel_file(dp, io)
                          THEN Outcome(dp.rows, "ok", TRUE, st.swallowed \/ dp.swallowed)
                          ELSE Outcome(disk, "fail", FALSE, TRUE)

----------------------------------------------------------------------------
(* import_Bitrix.py *)

\* re.search(r'/view/(\d+)/?$', url) on the links of the model
extract_task_id(url) ==
    CASE url = "https://b24/view/101/" -> <<"101">>
      [] url = "https://b24/view/102" -> <<"102">>
      [] OTHER -> NULL

status_changes(c) ==
    CASE c = <<"Oplachen">> -> <<"Otpravlen v 1C">>
      [] c = <<"Peredan v oplatu">> -> <<"Utverzhdena">>
      [] OTHER -> c

\* .astype("string").str.lstrip('0'): a missing number stays missing
lstrip_zeros(c) == IF c = NA THEN NA ELSE lstrip0(c)

prepare_bitrix(recs) ==
    [i \in 1..Len(recs) |->
        [id |-> to_numeric(recs[i].id),
         things |-> recs[i].things,
         obj |-> recs[i].obj,
         inv |-> lstrip_zeros(recs[i].inv),
         amt |-> recs[i].amt,
         status |-> status_changes(recs[i].state),
         task |-> IF recs[i].link = NULL THEN NULL
                  ELSE to_numeric(extract_task_id(recs[i].link[1]))]]

preprocess_bitrix_data(df_bitrix) == drop_duplicates(df_bitrix, "task_amt")

fill_invoice_numbers_from_bitrix(df_register, df_bitrix) ==
    LET df_bitrix_deduplicated == drop_duplicates(df_bitrix, "task_amt")
        merged == merge_left(df_register, df_bitrix_deduplicated, "task_amt")
        inv_bitrix(i) == IF merged[i] = NULL THEN NA ELSE merged[i][1].inv
    IN  [i \in 1..Len(df_register) |->
            IF df_register[i].inv = <<>> /\ inv_bitrix(i) # NA
            THEN [df_register[i] EXCEPT !.inv = inv_bitrix(i)]
            ELSE df_register[i]]

update_register_payment_status_bitrix(df_register, df_bitrix) ==
    LET df_bitrix_deduplicated == drop_duplicates(df_bitrix, "inv_amt")
        df_merged == merge_left(df_register, df_bitrix_deduplicated, "inv_amt")
        new(i) == IF df_merged[i] = NULL THEN NULL ELSE df_merged[i][1].status
    IN  [i \in 1..Len(df_register) |->
            IF status_mask(new(i), df_register[i].status)
            THEN [df_register[i] EXCEPT !.status = new(i)]
            ELSE df_register[i]]

\* lower-case, drop the stop words as whole words, squeeze the whitespace
clean_text_from_stop_words_precise(c) ==
    IF c = NULL THEN NULL
    ELSE CASE c[1] = "Bumaga A4" -> <<"bumaga a4">>
           [] c[1] = "rashody AHCh" -> <<"">>
           [] c[1] = "Kreslo rashody" -> <<"kreslo">>
           [] OTHER -> c

\* The test of import_Bitrix.py:216, 225, 240 and 267 for one cell
fill_mask(new, old) == new # NULL /\ old = NULL

update_register_id_payment_object_bitrix(df_register, df_bitrix) ==
    LET df_bitrix_deduplicated == drop_duplicates(df_bitrix, "inv_amt")
        df_merged == merge_left(df_register, df_bitrix_deduplicated, "inv_amt")
        ext(i, f) == IF df_merged[i] = NULL THEN NULL ELSE df_merged[i][1][f]
        things(i) == clean_text_from_stop_words_precise(ext(i, "things"))
    IN  [i \in 1..Len(df_register) |->
            [df_register[i] EXCEPT
                !.obj = IF fill_mask(ext(i, "obj"), @) THEN ext(i, "obj") ELSE @,
                !.fid = IF fill_mask(ext(i, "id"), @) THEN ext(i, "id") ELSE @,
                !.tmc = IF fill_mask(things(i), @) THEN things(i) ELSE @]]

update_register_id_task_bitrix(df_register, df_bitrix) ==
    LET df_bitrix_deduplicated == drop_duplicates(df_bitrix, "inv_amt")
        df_merged == merge_left(df_register, df_bitrix_deduplicated, "inv_amt")
        ext(i) == IF df_merged[i] = NULL THEN NULL ELSE df_merged[i][1].task
    IN  [i \in 1..Len(df_register) |->
            [df_register[i] EXCEPT
                !.task = IF fill_mask(ext(i), @) THEN ext(i) ELSE @]]

\* fillna("") of the object columns, written by openpyxl and read back by
\* pandas: an empty string and NaN are both an empty cell of the file
replace_nan_in_dataframe(df) ==
    [i \in 1..Len(df) |->
        [df[i] EXCEPT !.tmc = IF @ = <<"">> THEN NULL ELSE @]]

run_bitrix_pipeline(disk, sch, file, io) ==
    LET df_bitrix == load_source(file, io)
        loaded == load_ahx_data(disk, io)
    IN  IF ~df_bitrix.ok \/ ~loaded.ok \/ file.cols = "no_status"
        THEN Outcome(disk, "fail", FALSE, TRUE)
        ELSE LET df_bitrix_clean == prepare_bitrix(df_bitrix.rows)
                 df_register_clean == prepare_register(loaded.rows, sch)
                 df_bitrix_prepared == preprocess_bitrix_data(df_bitrix_clean)
             IN  IF ~df_register_clean.ok \/ sch = "no_status"
                 THEN Outcome(disk, "fail", FALSE, TRUE)
                 ELSE LET filled == fill_invoice_numbers_from_bitrix(
                                        df_register_clean.rows, df_bitrix_prepared)
                          st == update_register_payment_status_bitrix(filled, df_bitrix_prepared)
                          ob == update_register_id_payment_object_bitrix(st, df_bitrix_prepared)
                          dp == update_date_payment(ob, sch)
                          fin == update_register_id_task_bitrix(dp.rows, df_bitrix_prepared)
                          df_register_updated == replace_nan_in_dataframe(fin)
                      IN  IF update_excel_file(Frame(df_register_updated), io)
                          THEN Outcome(df_register_updated, "ok", TRUE, dp.swallowed)
                          ELSE Outcome(disk, "fail", FALSE, TRUE)

----------------------------------------------------------------------------
(* import_invoice.py *)

lower_char(ch) ==
    CASE ch = "A" -> "a"
      [] ch = "B" -> "b"
      [] OTHER -> ch

\* series.fillna('').astype("string").str.lower().str.lstrip('0')
invoice_number_key(c) ==
    IF c = NA THEN <<>>
    ELSE lstrip0([i \in 1..Len(c) |-> lower_char(c[i])])

\* The token after 'oplatu N' on the first line that has the target phrase.
\* text.num is that token, NA when no line has the marker, and <<>> when the
\* line ends right after the marker: parts[1].strip().split() is then empty
\* and [0] raises IndexError.
get_num_invoce(text) ==
    IF text.num = <<>> THEN Raise ELSE [ok |-> TRUE, rows |-> text.num]

\* A PDF whose text cannot be extracted is skipped, and so is one on which an
\* extraction function raises; every other PDF gives one record
extract_invoice_data(pdf_files) ==
    LET RECURSIVE collect(_)
        collect(i) ==
            IF i > Len(pdf_files) THEN <<>>
            ELSE IF pdf_files[i].kind # "ok" THEN collect(i + 1)
            ELSE IF ~get_num_invoce(pdf_files[i]).ok THEN collect(i + 1)
            ELSE <<[inv |-> invoice_number_key(pdf_files[i].num),
                    date |-> pdf_files[i].date,
                    supplier |-> pdf_files[i].supplier,
                    amt |-> pdf_files[i].amt,
                    ctrl |-> IF pdf_files[i].date = NULL THEN NULL
                             ELSE AddDays(pdf_files[i].date, 21)]>> \o collect(i + 1)
    IN  collect(1)

\* A row concat() appends: the invoice's five columns, NaN everywhere else
new_row(r) ==
    [inv |-> r.inv, amt |-> r.amt, status |-> NULL, obj |-> NULL, tmc |-> NULL,
     fid |-> NULL, task |-> NULL, date |-> r.date, supplier |-> r.supplier,
     ctrl |-> r.ctrl, ledger |-> NULL]

\* .str.extract(r'(\d+)') of a ledger number 'P-n'
number_part(ledger) == IF ledger = NULL THEN NULL ELSE <<ledger[2]>>

\* .str.findall(r'[A-YaYo]+').str[-1] of the cell: its last run of upper-case
\* Cyrillic letters, NaN when it has none; the f-string prints NaN as 'nan'
CyrillicPrefixes == {"U", "B"}

prefix_of(ledger) ==
    IF ledger # NULL /\ ledger[1] \in CyrillicPrefixes THEN ledger[1] ELSE "nan"

\* last_prefix is read from the row with index label 0
last_prefix(rows) == prefix_of(rows[1].ledger)

\* A start that reuses the largest number
start_num_reused(rows) ==
    LET nums == {rows[i].ledger[2] : i \in {j \in 1..Len(rows) : rows[j].ledger # NULL}}
    IN  IF nums = {} THEN 1 ELSE CHOOSE n \in nums : \A k \in nums : k <= n

\* start_num = int(last_number) + 1 if pd.notna(last_number) else 1
start_num(rows) ==
    LET nums == {rows[i].ledger[2] : i \in {j \in 1..Len(rows) : rows[j].ledger # NULL}}
    IN  IF nums = {} THEN 1 ELSE (CHOOSE n \in nums : \A k \in nums : k <= n) + 1

\* The rows that get a number: every row whose ledger number is NaN
nan_rows(rows) == {i \in 1..Len(rows) : rows[i].ledger = NULL}

\* A concatenation that puts the new rows first
concat_reversed(df_register, new_rows) == new_rows \o df_register

\* pd.concat([df_register, new_rows], ignore_index=True)
concat(df_register, new_rows) == df_register \o new_rows

update_register_with_new_invoices(df_register, df_invoice_reg) ==
    LET df_export_unique == drop_duplicates(df_invoice_reg, "inv_amt")
        new_rows == SelectSeq(df_export_unique,
                        LAMBDA r : \A i \in 1..Len(df_register) :
                                        inv_amt(df_register[i]) # inv_amt(r))
        joined == concat(df_register, [i \in 1..Len(new_rows) |-> new_row(new_rows[i])])
        rank(i) == Cardinality({j \in nan_rows(joined) : j < i})
    IN  IF \A i \in 1..Len(joined) : joined[i].ledger = NULL
        THEN Raise   \* the all-NaN column has no .str accessor
        ELSE Frame([i \in 1..Len(joined) |->
                IF i \in nan_rows(joined)
                THEN [joined[i] EXCEPT
                        !.ledger = <<last_prefix(joined), start_num(joined) + rank(i)>>]
                ELSE joined[i]])

run_invoice_pipeline(disk, sch, pdf_files, io) ==
    IF pdf_files = <<>> \/ io = "src_load_fail" THEN Outcome(disk, "noop", FALSE, io # "ok")
    ELSE LET loaded == load_ahx_data(disk, io)
             df_register_clean == IF loaded.ok THEN prepare_register(loaded.rows, sch)
                                  ELSE Raise
         IN  IF ~df_register_clean.ok THEN Outcome(disk, "fail", FALSE, TRUE)
             ELSE LET df_invoice_reg == extract_invoice_data(pdf_files)
                  IN  IF df_invoice_reg = <<>> THEN Outcome(disk, "noop", FALSE, FALSE)
                      ELSE LET df_updated == update_register_with_new_invoices(
                                                 df_register_clean.rows, df_invoice_reg)
                           IN  IF update_excel_file(df_updated, io)
                               THEN Outcome(df_updated.rows, "ok", TRUE, FALSE)
                               ELSE Outcome(disk, "fail", FALSE, TRUE)

----------------------------------------------------------------------------
(* The three entry points, run on the registry of the working directory *)

\* The run of entry point o on a registry file with the rows disk
RecordOn(o, disk, file, out) ==
    /\ registry' = out.rows
    /\ pre' = disk
    /\ src' = file
    /\ result' = out.result
    /\ wrote' = out.wrote
    /\ raised' = out.raised
    /\ again' = (op = o /\ src = file /\ result = "ok" /\ out.result = "ok")
    /\ op' = o
    /\ UNCHANGED schema

Record(o, file, out) == RecordOn(o, registry, file, out)

Run1C(file, io) ==
    LET out == run_1c_pipeline(registry, schema, file, io)
    IN  /\ Record("1C", file, out)
        /\ UNCHANGED botVars

RunBitrix(file, io) ==
    LET out == run_bitrix_pipeline(registry, schema, file, io)
    IN  /\ Record("Bitrix", file, out)
        /\ UNCHANGED botVars

RunPDF(pdf_files, io) ==
    LET out == run_invoice_pipeline(registry, schema, pdf_files, io)
    IN  /\ Len(out.rows) <= MaxRows
        /\ Record("PDF", pdf_files, out)
        /\ UNCHANGED botVars

\* One run of any entry point, on sources drawn from the given sets; the
\* I/O faults strike runs on the sources of the last three sets
Step(exports, bitrixes, pdfs, fexports, fbitrixes, fpdfs) ==
    \/ \E file \in exports : Run1C(file, "ok")
    \/ \E file \in bitrixes : RunBitrix(file, "ok")
    \/ \E pdf_files \in pdfs : RunPDF(pdf_files, "ok")
    \/ \E io \in {"reg_load_fail", "src_load_fail", "write_fail"} :
          \/ \E file \in fexports : Run1C(file, io)
          \/ \E file \in fbitrixes : RunBitrix(file, io)
          \/ \E pdf_files \in fpdfs : RunPDF(pdf_files, io)

----------------------------------------------------------------------------
(* bot.py.  conv[u] is the state of user u's conversation ("END" before    *)
(* /start), user_data[u] the user's entry of the dictionary, fs the        *)
(* temporary directories that exist: fs[d].reg the rows of the registry    *)
(* file of directory d, fs[d].files its other files, each [path, body]     *)
(* with path <<stem, counter, ext>>.  Updates are processed one at a time, *)
(* so a handler is one step.                                               *)

SINGLE_FILE_ACTIONS == {"1C", "Bitrix"}
prompts == SINGLE_FILE_ACTIONS \cup {"PDF"}

\* user_id not in user_data / 'current_action' not in user_data[user_id];
\* directories are numbered from 1
NoEntry == [temp_dir |-> 0, current_action |-> "none"]

File(recs) == [recs |-> recs, cols |-> "full"]
NoFile == [path |-> <<"", 0, "">>, body |-> File(<<>>)]

allowed_extensions == {"xls", "xlsx", "xlsm", "xlsb", "xltx", "xltm"}

\* The stems that the glob patterns '*Platezhn*.xls*' and '*Bitrix*.xls*'
\* match; 'stem_1' matches whenever 'stem' does
glob_stems(action) ==
    IF action = "1C" THEN {"Platezhnye porucheniya"} ELSE {"Bitrix otchet"}

glob(dir, action) ==
    {f \in dir : f.path[1] \in glob_stems(action) /\ f.path[3] \in allowed_extensions}

\* get_pdf_files / temp_dir.glob("*.pdf")
get_pdf_files(dir) == {f \in dir : f.path[3] = "pdf"}

\* The loop of lines 170-176: the name itself, else stem_1, stem_2, ...
unique_path(dir, stem, ext) ==
    LET taken(k) == \E f \in dir : f.path = <<stem, k, ext>>
        n == CHOOSE k \in 0..Cardinality(dir) :
                 ~taken(k) /\ \A j \in 0..(k - 1) : taken(j)
    IN  <<stem, n, ext>>

\* All orders in which a directory listing can return a set of files
Orders(S) ==
    {o \in [1..Cardinality(S) -> S] : \A i, j \in 1..Cardinality(S) : o[i] = o[j] => i = j}

\* A directory name that is already taken
mkdtemp_taken(existing) == 1

\* tempfile.mkdtemp(): a directory that did not exist
mkdtemp(existing) ==
    CHOOSE d \in 1..(Cardinality(existing) + 1) : ~(d \in existing)

\* The files of directory d; a directory that does not exist lists nothing
listdir(d) == IF d \in DOMAIN fs THEN fs[d].files ELSE {}

\* The uploaded files that all directories hold
stored_files == UNION {{<<d, f>> : f \in fs[d].files} : d \in DOMAIN fs}

\* shutil.rmtree(temp_dir, ignore_errors=True)
rmtree(d) == [e \in DOMAIN fs \ {d} |-> fs[e]]

\* The handler of user u's update ends with the reply r as its last message
Handled(u, r) == actor' = u /\ reply' = r

\* The handler, or the pipeline it ran, wrote lines about user u and the
\* user's files to the one sink of the process, bot_logs.log
Logged(u) == log' = log \cup {u}

\* The handler raised before it replied: the conversation stays where it was
Unhandled(u) ==
    /\ Handled(u, "none")
    /\ UNCHANGED <<coreVars, conv, user_data, fs, upload>>

start(u) ==
    /\ conv' = [conv EXCEPT ![u] = "UPLOAD_REGISTRY"]
    /\ Handled(u, "other")
    /\ Logged(u)
    /\ UNCHANGED <<coreVars, user_data, fs, upload>>

registry_received(u, file_name, rows) ==
    /\ conv[u] = "UPLOAD_REGISTRY"
    /\ Cardinality(DOMAIN fs) < MaxDirs
    /\ IF file_name[2] # "xlsx"
       THEN /\ Handled(u, "other")
            /\ UNCHANGED <<coreVars, conv, user_data, fs, upload, log>>
       ELSE LET temp_dir == mkdtemp(DOMAIN fs)
            IN  /\ user_data' = [user_data EXCEPT
                        ![u] = [temp_dir |-> temp_dir, current_action |-> "none"]]
                /\ fs' = [d \in DOMAIN fs \cup {temp_dir} |->
                            IF d = temp_dir THEN [reg |-> rows, files |-> {}]
                            ELSE fs[d]]
                /\ conv' = [conv EXCEPT ![u] = "MENU"]
                /\ Handled(u, "other")
                /\ Logged(u)
                /\ UNCHANGED <<coreVars, upload>>

\* shutil.rmtree(temp_dir); user_data.pop(user_id)
cleanup(u) ==
    /\ user_data' = [user_data EXCEPT ![u] = NoEntry]
    /\ fs' = rmtree(user_data[u].temp_dir)
    /\ UNCHANGED <<coreVars, upload>>

\* user_data[user_id] raises KeyError for a user without an entry.  'Otmena'
\* sends the log files, as /cancel does, and then the greeting of start.
menu_choice(u, choice) ==
    /\ conv[u] = "MENU"
    /\ Logged(u)
    /\ IF choice \in prompts
       THEN IF user_data[u] = NoEntry THEN Unhandled(u)
            ELSE /\ user_data' = [user_data EXCEPT ![u].current_action = choice]
                 /\ conv' = [conv EXCEPT ![u] = "UPLOAD_FILE"]
                 /\ Handled(u, "other")
                 /\ UNCHANGED <<coreVars, fs, upload>>
       ELSE IF choice \in {"Vygruzit reestr", "Otmena"}
       THEN IF user_data[u] = NoEntry THEN Unhandled(u)
            ELSE /\ cleanup(u)
                 /\ conv' = [conv EXCEPT ![u] = "UPLOAD_REGISTRY"]
                 /\ Handled(u, IF choice = "Otmena" THEN "logs" ELSE "other")
       ELSE /\ Handled(u, "other")
            /\ UNCHANGED <<coreVars, conv, user_data, fs, upload>>

\* The run leaves its rows as the registry file of directory d
Written(d, files, out) ==
    fs' = [fs EXCEPT ![d] = [reg |-> out.rows, files |-> files]]

\* The pipeline that file_received starts on directory d: it reads the
\* first file that its own glob returns, in the order of the listing
run_on_directory(action, d, files) ==
    IF glob(files, action) = {}
    THEN LET out == IF action = "1C"
                    THEN run_1c_pipeline(fs[d].reg, schema, NoFile.body, "src_load_fail")
                    ELSE run_bitrix_pipeline(fs[d].reg, schema, NoFile.body, "src_load_fail")
         IN  RecordOn(action, fs[d].reg, NoFile, out) /\ Written(d, files, out)
    ELSE \E f \in glob(files, action) :
            LET out == IF action = "1C"
                       THEN run_1c_pipeline(fs[d].reg, schema, f.body, "ok")
                       ELSE run_bitrix_pipeline(fs[d].reg, schema, f.body, "ok")
            IN  RecordOn(action, fs[d].reg, f, out) /\ Written(d, files, out)

\* The pipelines catch every exception and return a string, which the
\* handler does not look at: the except branch of lines 201-206 is never taken
file_received(u, file_name, body, io) ==
    /\ conv[u] = "UPLOAD_FILE"
    /\ Cardinality(stored_files) < MaxFiles
    /\ IF user_data[u] = NoEntry \/ user_data[u].current_action = "none"
       THEN Unhandled(u) /\ UNCHANGED log
       ELSE LET action == user_data[u].current_action
                temp_dir == user_data[u].temp_dir
                file_path == unique_path(listdir(temp_dir), file_name[1], file_name[2])
                stored == [path |-> file_path, body |-> body]
            IN  IF \/ action = "PDF" /\ file_name[2] # "pdf"
                   \/ action # "PDF" /\ ~(file_name[2] \in allowed_extensions)
                THEN /\ Handled(u, "other")
                     /\ UNCHANGED <<coreVars, conv, user_data, fs, upload, log>>
                ELSE IF io = "download_fail" \/ ~(temp_dir \in DOMAIN fs)
                THEN /\ Handled(u, "error")
                     /\ Logged(u)
                     /\ UNCHANGED <<coreVars, conv, user_data, fs, upload>>
                ELSE IF action \in SINGLE_FILE_ACTIONS
                THEN /\ run_on_directory(action, temp_dir, listdir(temp_dir) \cup {stored})
                     /\ upload' = stored
                     /\ user_data' = [user_data EXCEPT ![u].current_action = "none"]
                     /\ conv' = [conv EXCEPT ![u] = "MENU"]
                     /\ Handled(u, "processed")
                     /\ Logged(u)
                ELSE /\ fs' = [fs EXCEPT ![temp_dir].files = @ \cup {stored}]
                     /\ Handled(u, "uploaded")
                     /\ Logged(u)
                     /\ UNCHANGED <<coreVars, conv, user_data, upload>>

done_command(u) ==
    /\ conv[u] = "UPLOAD_FILE"
    /\ IF user_data[u] = NoEntry \/ user_data[u].current_action = "none"
          \/ get_pdf_files(listdir(user_data[u].temp_dir)) = {}
       THEN /\ conv' = [conv EXCEPT ![u] = "MENU"]
            /\ Handled(u, "other")
            /\ UNCHANGED <<coreVars, user_data, fs, upload, log>>
       ELSE LET temp_dir == user_data[u].temp_dir
            IN  \E files \in Orders(get_pdf_files(listdir(temp_dir))) :
                   LET pdf_files == [i \in 1..Len(files) |-> files[i].body]
                       out == run_invoice_pipeline(fs[temp_dir].reg, schema, pdf_files, "ok")
                   IN  /\ Len(out.rows) <= MaxRows
                       /\ RecordOn("PDF", fs[temp_dir].reg, files, out)
                       /\ Written(temp_dir, listdir(temp_dir), out)
                       /\ user_data' = [user_data EXCEPT ![u].current_action = "none"]
                       /\ conv' = [conv EXCEPT ![u] = "MENU"]
                       /\ Handled(u, "processed")
                       /\ Logged(u)
                       /\ UNCHANGED upload

\* /cancel: bot_logs.log, as it is, goes to the user; the fallback returns
\* None, so the conversation state stays
send_logs_and_cleanup(u) ==
    /\ conv[u] # "END"
    /\ IF user_data[u] = NoEntry THEN Unhandled(u) /\ UNCHANGED log
       ELSE /\ cleanup(u)
            /\ Handled(u, "logs")
            /\ Logged(u)
            /\ UNCHANGED conv

\* The updates the bot can receive from the users, one handler at a time
Handlers(users, registries, documents) ==
    \E u \in users :
        \/ start(u)
        \/ \E file_name \in {<<"Reestr AHCh", "xlsx">>, <<"Reestr AHCh", "pdf">>} :
              \E rows \in registries : registry_received(u, file_name, rows)
        \/ \E choice \in prompts \cup {"Vygruzit reestr", "Otmena", "privet"} :
              menu_choice(u, choice)
        \/ \E d \in documents, io \in {"ok", "download_fail"} :
              file_received(u, d[1], d[2], io)
        \/ done_command(u)
        \/ send_logs_and_cleanup(u)

----------------------------------------------------------------------------
(* Initial states and inputs *)

SeqsUpTo(S, n) == UNION {[1..k -> S] : k \in 0..n}

\* Registries that leave the PDF path room to append a row
Registries(rows) == SeqsUpTo(rows, MaxRows - 1) \ {<<>>}

InitRun ==
    /\ op = "none" /\ pre = <<>> /\ src = <<>> /\ result = "none"
    /\ wrote = FALSE /\ raised = FALSE /\ again = FALSE

\* The bot after its start, before any update of the users
InitUsers(users) ==
    /\ conv = [u \in users |-> "END"]
    /\ user_data = [u \in users |-> NoEntry]
    /\ fs = <<>>
    /\ upload = NoFile
    /\ reply = "none"
    /\ actor = "none"
    /\ log = {}

InitBotIdle == InitUsers({"u1"})

\* A registry file that lacks a column has no value in it
Conforms(rows, sch) ==
    \A i \in 1..Len(rows) :
        /\ sch = "no_status" => rows[i].status = NULL
        /\ sch = "no_date" => rows[i].date = NULL
        /\ sch = "no_task" => rows[i].task = NULL

FileNoStatus(recs) == [recs |-> recs, cols |-> "no_status"]

ExportRec(num, amt, state) == [num |-> num, amt |-> amt, state |-> state]

BitrixRec(inv, state) ==
    [id |-> NULL, things |-> NULL, obj |-> NULL, inv |-> inv, amt |-> <<1>>,
     state |-> state, link |-> NULL]

Pdf(kind, num) ==
    [kind |-> kind, num |-> num, amt |-> <<1>>, date |-> NULL, supplier |-> NULL]

PdfWith(num, date, supplier) ==
    [kind |-> "ok", num |-> num, amt |-> <<1>>, date |-> date, supplier |-> supplier]

Row(inv, status, date, supplier, ctrl, ledger) ==
    [inv |-> inv, amt |-> <<1>>, status |-> status, obj |-> NULL, tmc |-> NULL,
     fid |-> NULL, task |-> NULL, date |-> date, supplier |-> supplier,
     ctrl |-> ctrl, ledger |-> ledger]

----------------------------------------------------------------------------
(* Spec: statuses.  Registries and sources that differ in invoice number,  *)
(* amount and status; every entry point; missing columns and I/O faults.   *)

StatusRows ==
    {Row(<<"7">>, <<"Chernovik">>, <<10, 1>>, <<"IP Shaidulin">>, <<9, 2>>, <<"U", 7>>),
     Row(<<"7">>, <<"Oplacheno">>, <<10, 1>>, <<"IP Shaidulin">>, <<9, 2>>, <<"U", 7>>),
     Row(<<>>, <<"Chernovik">>, <<10, 1>>, <<"IP Shaidulin">>, <<9, 2>>, <<"U", 7>>)}

StatusExports ==
    {File(r) : r \in SeqsUpTo({ExportRec(<<"0", "7">>, <<1>>, NULL),
                               ExportRec(<<"0", "7">>, <<1>>, <<"Oplacheno">>)}, MaxSrc)}
    \cup {FileNoStatus(<<ExportRec(<<"0", "7">>, <<1>>, NULL)>>)}

StatusBitrixes ==
    {File(r) : r \in SeqsUpTo({BitrixRec(<<"0", "7">>, <<"Peredan v oplatu">>),
                               BitrixRec(NA, <<"Podgotovleno">>)}, MaxSrc)}
    \cup {FileNoStatus(<<BitrixRec(<<"0", "7">>, NULL)>>)}

StatusPdfs ==
    SeqsUpTo({Pdf(k, n) : k \in {"ok", "unreadable"},
                          n \in {<<"7">>, <<"A", "9">>}}, 1)

Init ==
    /\ schema \in {"full", "no_status", "no_date", "no_task"}
    /\ registry \in {r \in Registries(StatusRows) :
                        /\ Conforms(r, schema)
                        /\ schema # "full" => Len(r) = 1}
    /\ InitRun
    /\ InitBotIdle

Next ==
    Step(StatusExports, StatusBitrixes, StatusPdfs,
         {File(<<ExportRec(<<"0", "7">>, <<1>>, <<"Oplacheno">>)>>)},
         {File(<<BitrixRec(<<"0", "7">>, <<"Podgotovleno">>)>>)},
         {<<Pdf("ok", <<"A", "9">>)>>})

Spec == Init /\ [][Next]_vars

----------------------------------------------------------------------------
(* SpecFill: the fill-only fields.  One-row registries over every mix of   *)
(* empty, numeric and non-numeric values, merged with one Bitrix record.   *)

FillRows ==
    [inv : {<<"7">>}, amt : {<<1>>}, status : {<<"Chernovik">>},
     obj : {NULL, <<"Sklad">>}, tmc : {NULL, <<"stul">>},
     fid : {NULL, <<"5">>, <<"abc">>}, task : {NULL, <<"101">>},
     date : {<<10, 1>>}, supplier : {<<"Kuryshev">>}, ctrl : {<<4, 2>>},
     ledger : {<<"U", 7>>}]

FillBitrixes ==
    {File(<<r>>) : r \in
        [id : {NULL, <<"6">>}, things : {NULL, <<"Bumaga A4">>, <<"rashody AHCh">>},
         obj : {NULL, <<"Ofis">>}, inv : {<<"0", "7">>}, amt : {<<1>>},
         state : {<<"Oplachen">>}, link : {NULL, <<"https://b24/view/102">>}]}

InitFill ==
    /\ schema = "full"
    /\ registry \in {<<r>> : r \in FillRows}
    /\ InitRun
    /\ InitBotIdle

NextFill == \E file \in FillBitrixes : RunBitrix(file, "ok")

SpecFill == InitFill /\ [][NextFill]_vars

----------------------------------------------------------------------------
(* SpecDate: control dates.  Rows with and without an invoice date and     *)
(* with and without a control date; the same statement run again and again *)

DateRows ==
    {Row(<<"7">>, <<"Chernovik">>, d, s, c, <<"U", 7>>) :
        d \in {NULL, <<10, 1>>, <<10, 1, "iso">>},
        s \in {<<"IP Shaidulin">>, <<"Kuryshev">>},
        c \in {NULL, <<5, 3>>, <<9, 2>>}}

DateExports ==
    {File(<<ExportRec(<<"0", "7">>, <<1>>, st)>>) : st \in {NULL, <<"Oplacheno">>}}

InitDate ==
    /\ schema = "full"
    /\ registry \in Registries(DateRows)
    /\ InitRun
    /\ InitBotIdle

NextDate == \E file \in DateExports : Run1C(file, "ok")

SpecDate == InitDate /\ [][NextDate]_vars

----------------------------------------------------------------------------
(* SpecAlloc: ledger numbers.  Registries whose numbered rows have         *)
(* pairwise distinct suffixes, and any sequence of PDF runs.               *)

Numbered(rows) == {i \in 1..Len(rows) : rows[i].ledger # NULL}

DistinctSuffixes(rows) ==
    \A i, j \in Numbered(rows) : i # j => rows[i].ledger[2] # rows[j].ledger[2]

AllocRows ==
    {Row(<<"7">>, <<"Chernovik">>, <<10, 1>>, <<"Kuryshev">>, <<4, 2>>, l) :
        l \in {NULL, <<"U", 1>>, <<"U", 2>>, <<"B", 3>>}}

AllocPdfs ==
    SeqsUpTo({Pdf("ok", n) : n \in {<<"7">>, <<"8">>, <<"9">>}}, 2)

InitAlloc ==
    /\ schema = "full"
    /\ registry \in {r \in Registries(AllocRows) : DistinctSuffixes(r)}
    /\ InitRun
    /\ InitBotIdle

NextAlloc == \E pdf_files \in AllocPdfs : RunPDF(pdf_files, "ok")

SpecAlloc == InitAlloc /\ [][NextAlloc]_vars

----------------------------------------------------------------------------
(* SpecExtract: extraction from PDFs.  Documents with and without an       *)
(* invoice number, a date and a supplier, and any sequence of PDF runs.    *)

ExtractRows ==
    {Row(<<"7">>, <<"Chernovik">>, <<10, 1>>, <<"IP Shaidulin">>, <<9, 2>>, <<"U", 7>>)}

ExtractPdfs ==
    SeqsUpTo({PdfWith(<<"8">>, d, s) : d \in {NULL, <<10, 1>>},
                                       s \in {NULL, <<"Kuryshev">>}}
             \cup {PdfWith(NA, NULL, NULL), PdfWith(<<>>, NULL, NULL),
                   Pdf("unreadable", <<"8">>)}, 2)

InitExtract ==
    /\ schema = "full"
    /\ registry \in Registries(ExtractRows)
    /\ InitRun
    /\ InitBotIdle

NextExtract == \E pdf_files \in ExtractPdfs : RunPDF(pdf_files, "ok")

SpecExtract == InitExtract /\ [][NextExtract]_vars

----------------------------------------------------------------------------
(* SpecNorm: invoice numbers with leading zeros on either side of the join *)

ZeroPadded == {<<"7">>, <<"0", "0", "7">>}

NormRows ==
    {Row(n, <<"Chernovik">>, <<10, 1>>, <<"Kuryshev">>, <<4, 2>>, <<"U", 7>>) :
        n \in ZeroPadded}

InitNorm ==
    /\ schema = "full"
    /\ registry \in Registries(NormRows)
    /\ InitRun
    /\ InitBotIdle

NextNorm ==
    \/ \E n \in ZeroPadded : Run1C(File(<<ExportRec(n, <<1>>, <<"Oplacheno">>)>>), "ok")
    \/ \E n \in ZeroPadded : RunBitrix(File(<<BitrixRec(n, <<"Peredan v oplatu">>)>>), "ok")
    \/ \E n \in ZeroPadded : RunPDF(<<Pdf("ok", n)>>, "ok")

SpecNorm == InitNorm /\ [][NextNorm]_vars

----------------------------------------------------------------------------
(* SpecBackfill: invoice numbers taken from the Bitrix report.  Rows with  *)
(* and without an invoice number and a task, reports of up to MaxSrc       *)
(* records with and without an invoice number and a task link.             *)

BackfillRows ==
    {[Row(n, <<"Chernovik">>, <<10, 1>>, <<"Kuryshev">>, <<4, 2>>, <<"U", 7>>)
        EXCEPT !.task = t] : n \in {<<>>, <<"7">>}, t \in {NULL, <<"101">>}}

BackfillBitrixes ==
    {File(r) : r \in SeqsUpTo(
        {[BitrixRec(n, <<"Oplachen">>) EXCEPT !.link = l] :
            n \in {NA, <<"0", "9">>}, l \in {NULL, <<"https://b24/view/101/">>}},
        MaxSrc) \ {<<>>}}

InitBackfill ==
    /\ schema = "full"
    /\ registry \in Registries(BackfillRows)
    /\ InitRun
    /\ InitBotIdle

NextBackfill == \E file \in BackfillBitrixes : RunBitrix(file, "ok")

SpecBackfill == InitBackfill /\ [][NextBackfill]_vars

----------------------------------------------------------------------------
(* SpecBot: one user's conversation with the bot *)

BotRegistry == <<Row(<<"7">>, <<"Chernovik">>, <<10, 1>>, <<"Kuryshev">>, <<4, 2>>, <<"U", 7>>)>>

Statement(state) == File(<<ExportRec(<<"0", "7">>, <<1>>, state)>>)

\* What a user sends as a document: a name and what the file holds
Documents ==
    {<<<<"Platezhnye porucheniya", "xlsx">>, Statement(<<"Oplacheno">>)>>,
     <<<<"Platezhnye porucheniya", "xlsx">>, Statement(<<"Otmeneno">>)>>,
     <<<<"vypiska", "xlsx">>, Statement(<<"Oplacheno">>)>>,
     <<<<"Bitrix otchet", "xlsx">>, File(<<BitrixRec(<<"0", "7">>, <<"Oplachen">>)>>)>>,
     <<<<"schet", "pdf">>, Pdf("ok", <<"8">>)>>}

InitBot ==
    /\ schema = "full"
    /\ registry = <<>>
    /\ InitRun
    /\ InitBotIdle

NextBot == Handlers({"u1"}, {BotRegistry}, Documents)

SpecBot == InitBot /\ [][NextBot]_vars

----------------------------------------------------------------------------
(* SpecUsers: two users talk to the bot, their updates interleaved *)

Users == {"u1", "u2"}

UsersDocuments ==
    {<<<<"Platezhnye porucheniya", "xlsx">>, Statement(<<"Oplacheno">>)>>}

InitUsersBot ==
    /\ schema = "full"
    /\ registry = <<>>
    /\ InitRun
    /\ InitUsers(Users)

NextUsers == Handlers(Users, {BotRegistry}, UsersDocuments)

SpecUsers == InitUsersBot /\ [][NextUsers]_vars


----------------------------------------------------------------------------
(* Claims about statuses and errors, under Spec *)

\* The normalized records of the source the last run consumed
Normalized ==
    CASE op = "1C" -> prepare_export_1C(src.recs)
      [] op = "Bitrix" -> prepare_bitrix(src.recs)
      [] OTHER -> <<>>

\* The normalized source de-duplicated on (invoice number, amount), first kept
KeepFirst == drop_duplicates(Normalized, "inv_amt")

\* The record the de-duplicated source has for row i's key, NULL if none
Matched(i) ==
    LET m == {j \in 1..Len(KeepFirst) : inv_amt(KeepFirst[j]) = inv_amt(registry[i])}
    IN  IF m = {} THEN NULL ELSE <<KeepFirst[CHOOSE j \in m : TRUE]>>

\* The external status the claim's join gives row i, NULL when it gives none
Joined(i) == IF Matched(i) = NULL THEN NULL ELSE Matched(i)[1].status

\* C1: once a record's status is 'Oplacheno' or 'Podgotovleno', every later
\* run of any of the three entry points leaves the record in place with that
\* same status.
C1_TerminalStatusKept ==
    \A i \in 1..Len(pre) :
        pre[i].status \in Terminal =>
            i <= Len(registry) /\ registry[i].status = pre[i].status

\* A successful merge met a terminal row whose key the source matches with
\* another, non-null status
C1_Witness ==
    /\ op \in {"1C", "Bitrix"}
    /\ result = "ok"
    /\ \E i \in 1..Len(pre) :
          /\ pre[i].status \in Terminal
          /\ \E j \in 1..Len(Normalized) :
                /\ inv_amt(Normalized[j]) = inv_amt(pre[i])
                /\ Normalized[j].status # NULL
                /\ Normalized[j].status # pre[i].status

\* C2: a fill-only field (obj, tmc, fid, task) that is non-empty before a
\* Bitrix merge has the same value after it, and a fill-only field changes
\* only when it was empty and the matched Bitrix record has a value for it.
FillOnly == {"obj", "tmc", "fid", "task"}

External(i, f) ==
    IF Matched(i) = NULL THEN NULL
    ELSE CASE f = "obj" -> Matched(i)[1].obj
           [] f = "fid" -> Matched(i)[1].id
           [] f = "task" -> Matched(i)[1].task
           [] f = "tmc" -> clean_text_from_stop_words_precise(Matched(i)[1].things)

C2_FillOnlyKept ==
    op = "Bitrix" =>
        \A i \in 1..Len(pre) : \A f \in FillOnly :
            /\ pre[i][f] # NULL => registry[i][f] = pre[i][f]
            /\ registry[i][f] # pre[i][f] =>
                  pre[i][f] = NULL /\ External(i, f) # NULL

\* C3: after a merge, a row has the external status iff the source,
\* de-duplicated on (invoice number, amount), has a record with the row's key
\* and a non-null status and the row's prior status is not terminal; every
\* other row keeps its status.
C3_StatusRuleExact ==
    (op \in {"1C", "Bitrix"} /\ result = "ok" /\ schema = "full" /\ src.cols = "full") =>
        \A i \in 1..Len(registry) :
            registry[i].status =
                IF Joined(i) # NULL /\ ~(pre[i].status \in Terminal)
                THEN Joined(i) ELSE pre[i].status

\* C4: a second run of the bank-statement entry point on the same statement
\* leaves every field of every row as the first run left it.
C4_TwiceIsOnce == (op = "1C" /\ again) => registry = pre

\* C5: when the registry has a numbered row and all numbered rows share the
\* prefix P with largest suffix M, the k rows a PDF run inserts get
\* P-(M+1), ..., P-(M+k) in row order.
C5_Allocation ==
    (/\ op = "PDF" /\ result = "ok"
     /\ Numbered(pre) # {}
     /\ \A i, j \in Numbered(pre) : pre[i].ledger[1] = pre[j].ledger[1]) =>
        LET P == pre[CHOOSE i \in Numbered(pre) : TRUE].ledger[1]
            M == CHOOSE n \in {pre[i].ledger[2] : i \in Numbered(pre)} :
                     \A i \in Numbered(pre) : pre[i].ledger[2] <= n
        IN  \A k \in 1..(Len(registry) - Len(pre)) :
                registry[Len(pre) + k].ledger = <<P, M + k>>

\* C6: every row that was in the registry before a PDF run keeps its ledger
\* number, an empty one included.
C6_OnlyNewRowsNumbered ==
    op = "PDF" =>
        \A i \in 1..Len(pre) :
            i <= Len(registry) /\ registry[i].ledger = pre[i].ledger

\* C7: no two rows have the same ledger suffix, and every suffix a PDF run
\* assigns is greater than every suffix the registry had before that run.
C7_SuffixesUniqueIncreasing ==
    /\ DistinctSuffixes(registry)
    /\ op = "PDF" =>
          \A i \in Numbered(registry) :
              (i > Len(pre) \/ pre[i].ledger = NULL) =>
                  \A j \in Numbered(pre) : registry[i].ledger[2] > pre[j].ledger[2]

\* A PDF run appended a row to a registry that already had numbered rows,
\* after an earlier run had numbered rows too
C7_Witness ==
    /\ op = "PDF" /\ result = "ok"
    /\ Len(registry) > Len(pre)
    /\ Cardinality(Numbered(pre)) >= 2
    /\ registry[Len(registry)].ledger # NULL

\* C8: when a column the run requires is absent from the registry or from the
\* source, the run returns a failure and does not rewrite the registry.
C8_SchemaViolationAborts ==
    (op \in {"1C", "Bitrix"} /\ (schema # "full" \/ src.cols # "full")) =>
        result = "fail" /\ ~wrote /\ registry = pre

\* C9: when any step of a run fails, the returned status string is never the
\* success message.
C9_ErrorsSurfaced == raised => result # "ok"

\* C10: the file read by the run that an uploaded statement or report
\* triggers is exactly the file that was just uploaded, also when earlier
\* uploads of the session are still in the working directory.
C10_ReadsUploaded ==
    (op \in SINGLE_FILE_ACTIONS /\ src # NoFile) => src = upload

----------------------------------------------------------------------------
(* Claims about the sources: de-duplication, extraction, normalization *)

\* The normalized records of the source of the last run, PDF runs included
NormalizedSource ==
    IF op = "PDF" THEN extract_invoice_data(src) ELSE Normalized

\* The records that take part in the merge of the last run
Participating ==
    CASE op = "1C" -> drop_duplicates(prepare_export_1C(src.recs), "inv_amt")
      [] op = "Bitrix" ->
            drop_duplicates(preprocess_bitrix_data(prepare_bitrix(src.recs)), "inv_amt")
      [] op = "PDF" -> drop_duplicates(extract_invoice_data(src), "inv_amt")
      [] OTHER -> <<>>

\* C11: for every (invoice number, amount) key of the normalized source,
\* exactly one record with that key takes part in the merge, the first one in
\* source order, and no record is dropped because of any other key.
C11_DedupOnInvoiceAmount ==
    (op # "none" /\ result = "ok") =>
        Participating = drop_duplicates(NormalizedSource, "inv_amt")

\* The calendar day an invoice-date cell denotes
DateOf(c) == <<c[1], c[2]>>

\* C12: after a bank-statement run every row that had an invoice date has the
\* control date invoice date + the supplier's offset (0 for a supplier not in
\* the schedule), and the date step leaves every other field of every row,
\* the invoice date included, as it was (the status belongs to the step
\* before it).
C12_ScheduleAppliedDateKept ==
    (op = "1C" /\ result = "ok") =>
        \A i \in 1..Len(pre) :
            /\ pre[i].date # NULL =>
                   registry[i].ctrl =
                       AddDays(DateOf(pre[i].date),
                               days_dict(lower_strip(pre[i].supplier)))
            /\ [registry[i] EXCEPT !.ctrl = pre[i].ctrl, !.status = pre[i].status]
                   = pre[i]

\* The rows the last PDF run appended
Inserted == {i \in 1..Len(registry) : i > Len(pre)}

\* C13: every row a PDF run inserts with an invoice date has the control
\* date invoice date + the supplier's offset of the schedule (0 for a supplier
\* that is not in it).
C13_InsertedRowsFollowSchedule ==
    (op = "PDF" /\ result = "ok") =>
        \A i \in Inserted :
            registry[i].date # NULL =>
                registry[i].ctrl =
                    AddDays(registry[i].date,
                            days_dict(lower_strip(registry[i].supplier)))

\* The invoice number a document's record carries: empty when the number
\* cannot be found
ExtractedNumber(pdf) ==
    IF pdf.num \in {NA, <<>>} THEN <<>> ELSE invoice_number_key(pdf.num)

\* C14: a PDF run that did not fail has a record for every document with
\* text, whatever fields could be found in it: the record's (invoice number,
\* amount) is in the registry after the run, the number being empty when the
\* document has none.
C14_NoDocumentDropped ==
    (op = "PDF" /\ result # "fail") =>
        \A k \in 1..Len(src) :
            src[k].kind = "ok" =>
                \E i \in 1..Len(registry) :
                    inv_amt(registry[i]) = <<ExtractedNumber(src[k]), src[k].amt>>

\* Two records have the same key once leading zeros are stripped from the
\* invoice number on both sides
SameNormalKey(a, b) == lstrip0(a.inv) = lstrip0(b.inv) /\ a.amt = b.amt

\* C15: invoice numbers that differ only by leading zeros give the same join
\* key on the registry side and on the source side: a non-terminal row takes
\* the status of a source record with the same normalized key, and a PDF run
\* inserts no row whose normalized key a registry row already has.
C15_SameKeyOnBothSides ==
    /\ (op \in {"1C", "Bitrix"} /\ result = "ok") =>
          \A i \in 1..Len(pre) : \A k \in 1..Len(NormalizedSource) :
              ( /\ SameNormalKey(pre[i], NormalizedSource[k])
                /\ ~(pre[i].status \in Terminal)
                /\ NormalizedSource[k].status # NULL )
              => registry[i].status = NormalizedSource[k].status
    /\ (op = "PDF" /\ result = "ok") =>
          \A i \in Inserted : \A j \in 1..Len(pre) :
              ~SameNormalKey(registry[i], pre[j])

\* The invoice numbers the de-duplicated report offers row i of the registry
\* before the run: those of its records with the row's task and amount
Offered(i) ==
    {KeepFirst[k].inv : k \in
        {j \in 1..Len(KeepFirst) :
            /\ to_numeric(pre[i].task) # NULL
            /\ task_amt(KeepFirst[j]) = <<to_numeric(pre[i].task), pre[i].amt>>
            /\ ~(KeepFirst[j].inv \in {NA, <<>>})}}

\* C16: after a Bitrix run a row has an invoice number of the report exactly
\* when its own was empty and the de-duplicated report has a record with the
\* row's task and amount and a non-empty invoice number; every other row
\* keeps the invoice number it had.
C16_BackfillExactlyWhenOffered ==
    (op = "Bitrix" /\ result = "ok") =>
        \A i \in 1..Len(pre) :
            IF pre[i].inv = <<>> /\ Offered(i) # {}
            THEN registry[i].inv \in Offered(i)
            ELSE registry[i].inv = pre[i].inv

----------------------------------------------------------------------------
(* Claims about the rows of the registry *)

\* Row b is row a after a run: the amount, the supplier and the ledger number
\* are never rewritten, and an invoice number only when it was empty
SameRow(a, b) ==
    /\ b.amt = a.amt
    /\ b.supplier = a.supplier
    /\ a.ledger # NULL => b.ledger = a.ledger
    /\ a.inv # <<>> => b.inv = a.inv

\* C17: a run of any entry point leaves every row of the registry in place,
\* once and at its position; the 1C and Bitrix runs leave the number of rows
\* as it was, and a PDF run can only add rows after the last one.
C17_RowsKeptInOrder ==
    /\ Len(registry) >= Len(pre)
    /\ op \in {"1C", "Bitrix"} => Len(registry) = Len(pre)
    /\ \A i \in 1..Len(pre) : SameRow(pre[i], registry[i])

\* A PDF run appended a row to a registry of two rows that differ in their
\* invoice numbers
C17_Witness ==
    /\ op = "PDF"
    /\ result = "ok"
    /\ Len(pre) = 2
    /\ Len(registry) > Len(pre)
    /\ pre[1].inv # pre[2].inv
    /\ pre[1].inv # <<>>

----------------------------------------------------------------------------
(* Claims about the bot *)

\* The working directory of user u, 0 when the user has no session
temp_dir_of(u) == user_data[u].temp_dir

\* No two users with a session have the same working directory
DistinctDirectories ==
    \A u, v \in DOMAIN user_data :
        (u # v /\ temp_dir_of(u) # 0 /\ temp_dir_of(v) # 0) =>
            temp_dir_of(u) # temp_dir_of(v)

\* A handler changes or removes no directory but the one of the user whose
\* update it handles, and the run it starts reads the registry and the source
\* from that directory
OwnDirectoryOnly ==
    /\ \A d \in DOMAIN fs :
          (~(d \in DOMAIN fs') \/ fs'[d] # fs[d]) => d = temp_dir_of(actor')
    /\ reply' = "processed" =>
          /\ pre' = fs[temp_dir_of(actor')].reg
          /\ src' \in fs'[temp_dir_of(actor')].files \cup {NoFile}

C19_SessionInvariant ==
    \A u \in DOMAIN conv :
        /\ conv[u] \in {"MENU", "UPLOAD_FILE"} => temp_dir_of(u) # 0
        /\ conv[u] = "UPLOAD_FILE" => user_data[u].current_action # "none"

\* C20: the bot's last message says that the file or the PDFs were processed
\* only when the run returned its success status and rewrote the registry.
C20_SuccessReplyOnlyOnSuccess ==
    reply = "processed" => (result = "ok" /\ wrote)

\* A step in which a handler ran the PDF pipeline
PdfRunStarted == reply' = "processed" /\ op' = "PDF"

\* C21: the PDF pipeline is started only by a user whose current action is
\* the PDF upload; 'Gotovo' under a bank-statement or Bitrix upload starts no
\* PDF run, whatever PDFs the working directory still holds.
C21_PdfRunOnlyForPdfAction ==
    [][PdfRunStarted => user_data[actor'].current_action = "PDF"]_vars

\* C22: every temporary directory that exists is the working directory of
\* some user's user_data entry.
C22_NoDirectoryLeaked ==
    \A d \in DOMAIN fs : \E u \in DOMAIN user_data : temp_dir_of(u) = d

\* C23: a Bitrix run leaves the invoice number of every row without a task
\* reference as it was.
C23_NoBackfillWithoutTask ==
    (op = "Bitrix" /\ result = "ok") =>
        \A i \in 1..Len(pre) :
            pre[i].task = NULL => registry[i].inv = pre[i].inv

\* A step in which a handler sent bot_logs.log, as it was, to the user
LogsSent == reply' = "logs"

\* C24: the log files that a user receives hold lines about that user's own
\* session only, so what is sent does not depend on what other users did.
C24_LogsOfOwnSessionOnly ==
    [][LogsSent => log \subseteq {actor'}]_vars

====
